---- MODULE Spec2Model ----
(***************************************************************************)
(* Model of app.js, the client ledger ("Painel de Clientes").              *)
(*                                                                         *)
(* Representation of JavaScript values:                                    *)
(*   - a string is a TLA+ string; a date string 'yyyy-mm-dd' is the tuple  *)
(*     <<y, m, d>> of its three numeric parts and '' is the empty tuple;   *)
(*   - a number is [nan, n]: NaN is [nan |-> TRUE], a finite number        *)
(*     [nan |-> FALSE, n |-> integer]; the field valor of a stored record  *)
(*     holds the integer itself (a record without the field reads as       *)
(*     undefined, which arithmetic turns into NaN);                        *)
(*   - an object is a function from its own keys to their values;          *)
(*   - a JSON text is [kind, indent, items]: kind is "arr", "obj", "num"   *)
(*     or "bad" (text JSON.parse rejects), items the serialized members    *)
(*     of each array element, in order.                                    *)
(***************************************************************************)
EXTENDS Integers, Sequences, FiniteSets, TLC

\* ------------------------------------------------------------------------
\* Bounds of the model
\* ------------------------------------------------------------------------
MaxStore == 2        \* longest transaction store built by the page
MaxClock == 2        \* last reading of Date.now()
MaxReads == 1        \* FileReader loads in flight at once
MaxLen == 2          \* longest store handed to the calculation functions

\* ------------------------------------------------------------------------
\* JavaScript numbers and dates
\* ------------------------------------------------------------------------
NaN == [nan |-> TRUE, n |-> 0]

Num(i) == [nan |-> FALSE, n |-> i]

Plus(a, b) == IF a.nan \/ b.nan THEN NaN ELSE Num(a.n + b.n)

Minus(a, b) == IF a.nan \/ b.nan THEN NaN ELSE Num(a.n - b.n)

\* the comparisons of JavaScript: false as soon as one side is NaN
Lt(a, b) == ~a.nan /\ ~b.nan /\ a.n < b.n

Gt(a, b) == ~a.nan /\ ~b.nan /\ a.n > b.n

Le(a, b) == ~a.nan /\ ~b.nan /\ a.n <= b.n

Ge(a, b) == ~a.nan /\ ~b.nan /\ a.n >= b.n

Has(o, k) == k \in DOMAIN o

\* t.valor as a number: undefined becomes NaN in arithmetic
valorOf(t) == IF Has(t, "valor") THEN Num(t.valor) ELSE NaN

tipoOf(t) == IF Has(t, "tipo") THEN t.tipo ELSE "undefined"

clienteIdOf(t) == IF Has(t, "clienteId") THEN t.clienteId ELSE "undefined"

\* Days from 1970-01-01 to the civil date y-m-d (proleptic Gregorian).
DaysFromCivil(y, m, d) ==
    LET y2 == IF m <= 2 THEN y - 1 ELSE y
        era == y2 \div 400
        yoe == y2 - era * 400
        mp == (m + 9) % 12
        doy == (153 * mp + 2) \div 5 + d - 1
        doe == yoe * 365 + yoe \div 4 - yoe \div 100 + doy
    IN  era * 146097 + doe - 719468

\* new Date(dateString + 'T00:00:00'): the time value of local midnight of
\* that day, counted in whole days; Invalid Date (NaN) for a string that is
\* not a date.
parseDate(ds) == IF Len(ds) = 3 THEN Num(DaysFromCivil(ds[1], ds[2], ds[3])) ELSE NaN

dataOf(t) == IF Has(t, "data") THEN t.data ELSE <<>>

\* ------------------------------------------------------------------------
\* JSON.stringify / JSON.parse of the transaction store
\* ------------------------------------------------------------------------
KeyOrder == <<"id", "clienteId", "tipo", "valor", "data">>

\* one "key": value member of a serialized object
Member(o, k) ==
    [key |-> k,
     kind |-> IF k = "valor" THEN "num" ELSE IF k = "data" THEN "date" ELSE "str",
     num |-> IF k = "valor" THEN o[k] ELSE 0,
     str |-> IF k \in {"id", "clienteId", "tipo"} THEN o[k] ELSE "",
     date |-> IF k = "data" THEN o[k] ELSE <<>>]

RECURSIVE EncodeFrom(_, _)
EncodeFrom(o, i) ==
    IF i > Len(KeyOrder) THEN <<>>
    ELSE IF Has(o, KeyOrder[i]) THEN <<Member(o, KeyOrder[i])>> \o EncodeFrom(o, i + 1)
    ELSE EncodeFrom(o, i + 1)

EncodeObj(o) == EncodeFrom(o, 1)

\* JSON.stringify(arr, null, indent)
Stringify(arr, indent) ==
    [kind |-> "arr", indent |-> indent,
     items |-> [i \in 1..Len(arr) |-> EncodeObj(arr[i])]]

MemberValue(m) ==
    IF m.kind = "num" THEN m.num ELSE IF m.kind = "date" THEN m.date ELSE m.str

\* the object a serialized member list denotes (a repeated key keeps its
\* last value)
DecodeObj(ms) ==
    [k \in {ms[i].key : i \in 1..Len(ms)} |->
        MemberValue(ms[CHOOSE i \in 1..Len(ms) :
            ms[i].key = k /\ \A j \in (i + 1)..Len(ms) : ms[j].key # k])]

\* JSON.parse(text) when text is an array
ParseArray(text) == [i \in 1..Len(text.items) |-> DecodeObj(text.items[i])]

\* ------------------------------------------------------------------------
\* Calculation functions
\* ------------------------------------------------------------------------
RECURSIVE SelectSeqIdx(_, _, _)
SelectSeqIdx(s, Test(_), i) ==
    IF i > Len(s) THEN <<>>
    ELSE IF Test(s[i]) THEN <<s[i]>> \o SelectSeqIdx(s, Test, i + 1)
    ELSE SelectSeqIdx(s, Test, i + 1)

\* Array.prototype.filter: a new array, the receiver is not modified
Filter(s, Test(_)) == SelectSeqIdx(s, Test, 1)

getTransactionsForClient_all(store, clientId) == store

getTransactionsForClient(store, clientId) ==
    LET match(t) == clienteIdOf(t) = clientId
    IN  Filter(store, match)

\* the reducer of calculateClientBalance, also the loop body of saldoTotal
balanceStep(acc, trans) ==
    IF tipoOf(trans) = "entrada" THEN Plus(acc, valorOf(trans))
    ELSE IF tipoOf(trans) = "saida" THEN Minus(acc, valorOf(trans))
    ELSE acc

RECURSIVE ReduceBalance(_, _, _)
ReduceBalance(s, i, acc) ==
    IF i > Len(s) THEN acc ELSE ReduceBalance(s, i + 1, balanceStep(acc, s[i]))

calculateClientBalance(store, clientId) ==
    ReduceBalance(getTransactionsForClient(store, clientId), 1, Num(0))

\* Array.prototype.find on the roster: the first client with that id, or
\* undefined (found = FALSE)
RECURSIVE FindFrom(_, _, _)
FindFrom(clients, id, i) ==
    IF i > Len(clients) THEN [found |-> FALSE, client |-> [id |-> id]]
    ELSE IF clients[i].id = id THEN [found |-> TRUE, client |-> clients[i]]
    ELSE FindFrom(clients, id, i + 1)

findClient(clients, id) == FindFrom(clients, id, 1)

\* c.comissaoPct || 0
pctOrZero(c) == IF Has(c, "comissaoPct") THEN c.comissaoPct ELSE 0

\* the filter predicate of calculateDashboardStats; '' (the empty tuple)
\* for an absent bound
inPeriod_exclusive(t, startDate, endDate) ==
    LET transDate == parseDate(dataOf(t))
    IN  /\ ~(startDate # <<>> /\ ~Gt(transDate, parseDate(startDate)))
        /\ ~(endDate # <<>> /\ Gt(transDate, parseDate(endDate)))

inPeriod(t, startDate, endDate) ==
    LET transDate == parseDate(dataOf(t))
    IN  /\ ~(startDate # <<>> /\ Lt(transDate, parseDate(startDate)))
        /\ ~(endDate # <<>> /\ Gt(transDate, parseDate(endDate)))

commissionOf_anyTipo(clients, trans) ==
    LET r == findClient(clients, clienteIdOf(trans))
    IN  IF r.found /\ pctOrZero(r.client) # 0
           THEN IF Has(trans, "valor") THEN Num(trans.valor * r.client.comissaoPct) ELSE NaN
           ELSE Num(0)

\* what one record adds to comissaoTotalValor, in hundredths of the
\* currency unit: valor * (comissaoPct / 100) is (valor * comissaoPct) / 100
commissionOf(clients, trans) ==
    LET r == findClient(clients, clienteIdOf(trans))
    IN  IF tipoOf(trans) = "entrada" /\ r.found /\ pctOrZero(r.client) # 0
           THEN IF Has(trans, "valor") THEN Num(trans.valor * r.client.comissaoPct) ELSE NaN
           ELSE Num(0)

RECURSIVE ReduceCommission(_, _, _, _)
ReduceCommission(clients, s, i, acc) ==
    IF i > Len(s) THEN acc
    ELSE ReduceCommission(clients, s, i + 1, Plus(acc, commissionOf(clients, s[i])))

RECURSIVE SumPct_fromSecond(_, _)
SumPct_fromSecond(clients, i) ==
    IF i > Len(clients) THEN 0
    ELSE (IF i = 1 THEN 0 ELSE pctOrZero(clients[i])) + SumPct_fromSecond(clients, i + 1)

RECURSIVE SumPct(_, _)
SumPct(clients, i) ==
    IF i > Len(clients) THEN 0 ELSE pctOrZero(clients[i]) + SumPct(clients, i + 1)

\* comissaoTotalValor is in hundredths; comissaoMediaPct is the quotient
\* num / den kept as a fraction
calculateDashboardStats(clients, store, startDate, endDate) ==
    LET totalClientes == Len(clients)
        totalComissaoPct == IF totalClientes > 0 THEN SumPct(clients, 1) ELSE 0
        keep(t) == inPeriod(t, startDate, endDate)
        filteredTransactions == Filter(store, keep)
    IN  [totalClientes |-> totalClientes,
         saldoTotal |-> ReduceBalance(filteredTransactions, 1, Num(0)),
         comissaoTotalValor |-> ReduceCommission(clients, filteredTransactions, 1, Num(0)),
         comissaoMediaPct |-> IF totalClientes > 0
                                 THEN [num |-> totalComissaoPct, den |-> totalClientes]
                                 ELSE [num |-> 0, den |-> 1]]

\* ------------------------------------------------------------------------
\* Search, balance buckets and rendering
\* ------------------------------------------------------------------------
\* the characters of the strings the roster uses for nome, empresa and id;
\* the text typed in the search box is given as the tuple of its characters
Chars(s) ==
    CASE s = "Ana" -> <<"A", "n", "a">>
      [] s = "Bia" -> <<"B", "i", "a">>
      [] s = "Alfa" -> <<"A", "l", "f", "a">>
      [] s = "Beta" -> <<"B", "e", "t", "a">>
      [] s = "c1" -> <<"c", "1">>
      [] s = "c2" -> <<"c", "2">>
      [] OTHER -> <<>>

LowerChar(c) ==
    CASE c = "A" -> "a" [] c = "B" -> "b" [] c = "C" -> "c" [] c = "E" -> "e"
      [] c = "F" -> "f" [] c = "I" -> "i" [] c = "L" -> "l" [] c = "N" -> "n"
      [] c = "T" -> "t" [] OTHER -> c

toLowerCase(cs) == [i \in 1..Len(cs) |-> LowerChar(cs[i])]

includes(hay, needle) ==
    \E i \in 0..(Len(hay) - Len(needle)) : SubSeq(hay, i + 1, i + Len(needle)) = needle

textMatch(client, query) ==
    LET lowerQuery == toLowerCase(query)
    IN  \/ includes(toLowerCase(Chars(client.nome)), lowerQuery)
        \/ includes(toLowerCase(Chars(client.empresa)), lowerQuery)
        \/ includes(toLowerCase(Chars(client.id)), lowerQuery)

bucketAccepts_upToZero(balanceFilter, saldo) ==
    CASE balanceFilter = "positivo" -> Gt(saldo, Num(0))
      [] balanceFilter = "0-500" -> Gt(saldo, Num(0)) /\ Le(saldo, Num(500))
      [] balanceFilter = "501-1000" -> Ge(saldo, Num(501)) /\ Le(saldo, Num(1000))
      [] balanceFilter = "1001+" -> Gt(saldo, Num(1000))
      [] balanceFilter = "negativo" -> Le(saldo, Num(0))
      [] balanceFilter = "zero" -> saldo = Num(0)
      [] OTHER -> TRUE

bucketAccepts_from500(balanceFilter, saldo) ==
    CASE balanceFilter = "positivo" -> Gt(saldo, Num(0))
      [] balanceFilter = "0-500" -> Gt(saldo, Num(0)) /\ Le(saldo, Num(500))
      [] balanceFilter = "501-1000" -> Ge(saldo, Num(500)) /\ Le(saldo, Num(1000))
      [] balanceFilter = "1001+" -> Gt(saldo, Num(1000))
      [] balanceFilter = "negativo" -> Lt(saldo, Num(0))
      [] balanceFilter = "zero" -> saldo = Num(0)
      [] OTHER -> TRUE

\* the switch on the value of the balance select
bucketAccepts(balanceFilter, saldo) ==
    CASE balanceFilter = "positivo" -> Gt(saldo, Num(0))
      [] balanceFilter = "0-500" -> Gt(saldo, Num(0)) /\ Le(saldo, Num(500))
      [] balanceFilter = "501-1000" -> Ge(saldo, Num(501)) /\ Le(saldo, Num(1000))
      [] balanceFilter = "1001+" -> Gt(saldo, Num(1000))
      [] balanceFilter = "negativo" -> Lt(saldo, Num(0))
      [] balanceFilter = "zero" -> saldo = Num(0)
      [] OTHER -> TRUE

\* the list refreshSearchResults hands to renderClientCard: the roster
\* annotated with saldo, filtered by text and then by bucket
searchResults(clients, store, query, balanceFilter) ==
    LET annotated == [i \in 1..Len(clients) |->
                        clients[i] @@ [saldo |-> calculateClientBalance(store, clients[i].id)]]
        byText(c) == Len(query) = 0 \/ textMatch(c, query)
        byBucket(c) == balanceFilter = "todos" \/ bucketAccepts(balanceFilter, c.saldo)
    IN  Filter(Filter(annotated, byText), byBucket)

\* formatCurrency: NaN is shown as 0
formatCurrency(v) == IF v.nan THEN 0 ELSE v.n

\* b before a in the date sort of renderClientCard (parseDate(b) - parseDate(a) > 0)
SortsAfter(a, b) == Gt(parseDate(dataOf(b)), parseDate(dataOf(a)))

\* stable sort, most recent first; it sorts the array filter returned
RECURSIVE InsertByDate(_, _)
InsertByDate(sorted, t) ==
    IF sorted = <<>> THEN <<t>>
    ELSE IF SortsAfter(Head(sorted), t) THEN <<t>> \o sorted
    ELSE <<Head(sorted)>> \o InsertByDate(Tail(sorted), t)

RECURSIVE SortByDateDesc(_, _, _)
SortByDateDesc(s, i, acc) ==
    IF i > Len(s) THEN acc ELSE SortByDateDesc(s, i + 1, InsertByDate(acc, s[i]))

slice4(s) == SubSeq(s, 1, IF Len(s) < 4 THEN Len(s) ELSE 4)

Line(t) == [data |-> dataOf(t), valor |-> formatCurrency(valorOf(t))]

\* client.comissaoPct.toFixed(1) throws a TypeError when comissaoPct is absent
renderThrows(client) == ~Has(client, "comissaoPct")

\* the card renderClientCard appends for one client of the result list
renderClientCard(store, client) ==
    LET clientTransactions ==
            SortByDateDesc(getTransactionsForClient(store, client.id), 1, <<>>)
        isEntrada(t) == tipoOf(t) = "entrada"
        isSaida(t) == tipoOf(t) = "saida"
        entradas == slice4(Filter(clientTransactions, isEntrada))
        saidas == slice4(Filter(clientTransactions, isSaida))
    IN  [id |-> client.id,
         saldo |-> formatCurrency(client.saldo),
         entradas |-> [i \in 1..Len(entradas) |-> Line(entradas[i])],
         saidas |-> [i \in 1..Len(saidas) |-> Line(saidas[i])]]

\* the cards in the page after refreshSearchResults: every result up to the
\* first one whose rendering throws
RECURSIVE RenderFrom(_, _, _)
RenderFrom(store, results, i) ==
    IF i > Len(results) \/ renderThrows(results[i]) THEN <<>>
    ELSE <<renderClientCard(store, results[i])>> \o RenderFrom(store, results, i + 1)

refreshSearchResults(clients, store, query, balanceFilter) ==
    LET results == searchResults(clients, store, query, balanceFilter)
    IN  [cards |-> RenderFrom(store, results, 1),
         threw |-> \E i \in 1..Len(results) : renderThrows(results[i])]

\* the four figures updateDashboardUI writes
updateDashboardUI(stats) ==
    [totalClientes |-> stats.totalClientes,
     saldoTotal |-> formatCurrency(stats.saldoTotal),
     comissaoTotal |-> formatCurrency(stats.comissaoTotalValor),
     comissaoMedia |-> stats.comissaoMediaPct]

\* parseFloat of the digits typed in the value field
RECURSIVE parseFloat(_)
parseFloat(digits) ==
    IF digits = <<>> THEN 0
    ELSE 10 * parseFloat(SubSeq(digits, 1, Len(digits) - 1)) + digits[Len(digits)]

\* ------------------------------------------------------------------------
\* State
\* ------------------------------------------------------------------------
VARIABLES
    allClients,       \* the roster loaded from clientes.json
    allTransactions,  \* the in-memory transaction store
    storage,          \* localStorage[TRANSACTIONS_KEY]: [present, text]
    now,              \* the reading Date.now() returns
    ready,            \* initializePage ran to its end: the listeners are attached
    dateStart,        \* value of the date-start input
    dateEnd,          \* value of the date-end input
    searchInput,      \* value of the search box
    filterSaldo,      \* value of the balance select
    shown,            \* what the page displays: the four figures and the cards
    txModal,          \* transaction modal: open, hidden type and client id fields
    ioModal,          \* import/export modal: "hidden", "export" or "import"
    ioTextarea,       \* value of the export textarea
    exportSrc,        \* history: the store handleExport serialized into ioTextarea
    ioBtn,            \* the close button in the page: the original or the clone, its onclick
    offered,          \* history: the file the import dialog was last opened for
    reading,          \* FileReader loads in flight (the text each will deliver)
    alert,            \* alert modal: open, title, and whether OK reloads the page
    ret               \* the last value returned by a calculation function

dataVars == <<allClients, allTransactions, storage>>

inputs == <<dateStart, dateEnd, searchInput, filterSaldo>>

io == <<ioModal, ioTextarea, exportSrc, ioBtn, offered, reading>>

vars == <<allClients, allTransactions, storage, now, ready, dateStart, dateEnd, searchInput,
          filterSaldo, shown, txModal, ioModal, ioTextarea, exportSrc, ioBtn, offered,
          reading, alert, ret>>

NoText == [kind |-> "bad", indent |-> 0, items |-> <<>>]

NoItem == [present |-> FALSE, text |-> NoText]

NoStats ==
    [totalClientes |-> 0, saldoTotal |-> Num(0), comissaoTotalValor |-> Num(0),
     comissaoMediaPct |-> [num |-> 0, den |-> 1]]

NoShown == [stats |-> updateDashboardUI(NoStats), cards |-> <<>>]

TxHidden == [open |-> FALSE, type |-> "", clientId |-> ""]

NoFile == [set |-> FALSE, text |-> NoText]

File(text) == [set |-> TRUE, text |-> text]

\* btn-io-modal-close as created by the page: its click listener is hideIOModal
OrigBtn == [inDom |-> "orig", onclick |-> "hide", file |-> NoText]

NoAlert == [open |-> FALSE, title |-> "", reload |-> FALSE]

NoRet ==
    [fn |-> "none", clientId |-> "", startDate |-> <<>>, endDate |-> <<>>,
     balance |-> Num(0), stats |-> NoStats,
     query |-> <<>>, balanceFilter |-> "todos", results |-> <<>>]

\* ------------------------------------------------------------------------
\* The calculation functions applied to bounded rosters and stores
\* ------------------------------------------------------------------------
Day1 == <<2024, 1, 31>>

Day2 == <<2024, 2, 1>>

Day3 == <<2024, 2, 2>>

CalcClient(id, nome, empresa) == [id |-> id, nome |-> nome, empresa |-> empresa]

\* rosters: a commission, no comissaoPct, a zero comissaoPct; no client
CalcRosters ==
    << <<CalcClient("c1", "Ana", "Alfa") @@ [comissaoPct |-> 10],
         CalcClient("c2", "Bia", "Beta")>>,
       <<CalcClient("c1", "Ana", "Alfa") @@ [comissaoPct |-> 0],
         CalcClient("c2", "Bia", "Beta") @@ [comissaoPct |-> 25]>>,
       <<>> >>

\* "zz" is the id of no roster client, "estorno" is no known tipo
CalcIds == {"c1", "c2", "zz"}

\* the amount recorded on each day (distinct, so that a sum tells which
\* records it counted)
ValorOn(data) == IF data = Day1 THEN 100 ELSE IF data = Day2 THEN 250 ELSE 400

CalcTx ==
    {t \in [id : {"trans_1"}, clienteId : CalcIds, tipo : {"entrada", "saida", "estorno"},
            valor : {100, 250, 400}, data : {Day1, Day2, Day3}] :
        t.valor = ValorOn(t.data)}

CalcStores == UNION {[1..n -> CalcTx] : n \in 0..MaxLen}

CalcBounds == {<<>>, Day2}

InitCalc ==
    /\ \E r \in 1..Len(CalcRosters) : allClients = CalcRosters[r]
    /\ allTransactions \in CalcStores
    /\ storage = NoItem
    /\ ret = NoRet
    /\ now = 1
    /\ ready = FALSE
    /\ dateStart = <<>> /\ dateEnd = <<>> /\ searchInput = <<>> /\ filterSaldo = "todos"
    /\ shown = NoShown
    /\ txModal = TxHidden
    /\ ioModal = "hidden" /\ ioTextarea = NoText /\ exportSrc = <<>>
    /\ ioBtn = OrigBtn /\ offered = NoFile /\ reading = <<>>
    /\ alert = NoAlert

CallBalance(clientId) ==
    /\ ret' = [NoRet EXCEPT !.fn = "balance", !.clientId = clientId,
                            !.balance = calculateClientBalance(allTransactions, clientId)]
    /\ UNCHANGED <<dataVars, now, ready, inputs, shown, txModal, io, alert>>

CallStats(startDate, endDate) ==
    /\ ret' = [NoRet EXCEPT !.fn = "stats", !.startDate = startDate, !.endDate = endDate,
                            !.stats = calculateDashboardStats(allClients, allTransactions,
                                                              startDate, endDate)]
    /\ UNCHANGED <<dataVars, now, ready, inputs, shown, txModal, io, alert>>

NextCalc ==
    \/ \E clientId \in CalcIds : CallBalance(clientId)
    \/ \E startDate \in CalcBounds, endDate \in CalcBounds : CallStats(startDate, endDate)

SpecCalc == InitCalc /\ [][NextCalc]_vars

\* ------------------------------------------------------------------------
\* The search applied to bounded rosters, stores, queries and buckets
\* ------------------------------------------------------------------------
\* the same two clients in both orders
SearchRosters ==
    << <<CalcClient("c1", "Ana", "Alfa") @@ [comissaoPct |-> 10],
         CalcClient("c2", "Bia", "Beta") @@ [comissaoPct |-> 25]>>,
       <<CalcClient("c2", "Bia", "Beta") @@ [comissaoPct |-> 25],
         CalcClient("c1", "Ana", "Alfa") @@ [comissaoPct |-> 10]>> >>

\* amounts whose sums and differences reach every edge of the buckets
SearchTx ==
    [id : {"trans_1"}, clienteId : {"c1", "c2"}, tipo : {"entrada", "saida"},
     valor : {1, 500, 1000}, data : {Day1}]

SearchStores == UNION {[1..n -> SearchTx] : n \in 0..MaxLen}

\* '', a part of a nome, of an empresa, of an id, in mixed case
SearchQueries == {<<>>, <<"a", "N">>, <<"B", "E", "T">>, <<"C", "2">>}

\* the option values of the balance select
BalanceFilters == {"todos", "positivo", "0-500", "501-1000", "1001+", "negativo", "zero"}

InitSearch ==
    /\ \E r \in 1..Len(SearchRosters) : allClients = SearchRosters[r]
    /\ allTransactions \in SearchStores
    /\ storage = NoItem
    /\ ret = NoRet
    /\ now = 1
    /\ ready = FALSE
    /\ dateStart = <<>> /\ dateEnd = <<>> /\ searchInput = <<>> /\ filterSaldo = "todos"
    /\ shown = NoShown
    /\ txModal = TxHidden
    /\ ioModal = "hidden" /\ ioTextarea = NoText /\ exportSrc = <<>>
    /\ ioBtn = OrigBtn /\ offered = NoFile /\ reading = <<>>
    /\ alert = NoAlert

\* the result list of refreshSearchResults for a query and a bucket
CallSearch(query, balanceFilter) ==
    /\ ret' = [NoRet EXCEPT !.fn = "search", !.query = query,
                            !.balanceFilter = balanceFilter,
                            !.results = searchResults(allClients, allTransactions,
                                                      query, balanceFilter)]
    /\ UNCHANGED <<dataVars, now, ready, inputs, shown, txModal, io, alert>>

NextSearch ==
    \E query \in SearchQueries, balanceFilter \in BalanceFilters :
        CallSearch(query, balanceFilter)

SpecSearch == InitSearch /\ [][NextSearch]_vars

\* ------------------------------------------------------------------------
\* The page: initializePage and the event handlers
\* ------------------------------------------------------------------------
MainClient(id, nome, empresa, pct) ==
    [id |-> id, nome |-> nome, empresa |-> empresa, comissaoPct |-> pct]

\* clientes.json as loaded: one client; a roster with a client that has no
\* comissaoPct; no roster (the fetch failed, allClients stays [])
Rosters ==
    << <<MainClient("c1", "Ana", "Alfa", 10)>>,
       <<MainClient("c1", "Ana", "Alfa", 10), CalcClient("c2", "Bia", "Beta")>>,
       <<>> >>

\* `trans_${Date.now()}`
newId(clock) == "trans_" \o ToString(clock)

\* a record written by an earlier session
OldTx == [id |-> newId(0), clienteId |-> "c1", tipo |-> "entrada", valor |-> 100, data |-> Day1]

InitStorages == <<NoItem, [present |-> TRUE, text |-> Stringify(<<OldTx>>, 0)]>>

\* what the user types in the transaction form ('' is the empty tuple)
FormValues == {<<>>, <<2, 5, 0>>}

FormDates == {<<>>, Day2}

\* the settings the user gives the date, search and balance inputs
FilterSettings ==
    << [dateStart |-> <<>>, dateEnd |-> <<>>, searchInput |-> <<>>, filterSaldo |-> "todos"],
       [dateStart |-> Day2, dateEnd |-> Day2, searchInput |-> <<"A", "N">>,
        filterSaldo |-> "positivo"] >>

\* the files the user can pick: {"not": "an array"}, text that is not JSON,
\* a backup of two records, an array whose record has no id and no data
ImportFiles ==
    << [kind |-> "obj", indent |-> 0, items |-> <<>>],
       [kind |-> "bad", indent |-> 0, items |-> <<>>],
       Stringify(<<OldTx, [id |-> newId(-1), clienteId |-> "zz", tipo |-> "saida",
                           valor |-> 400, data |-> Day3]>>, 2),
       Stringify(<<[clienteId |-> "c1", tipo |-> "entrada", valor |-> 100]>>, 0) >>

\* loadTransactions
loadTransactions(stor) == IF stor.present THEN ParseArray(stor.text) ELSE <<>>

saveTransactions_skipped(store) == storage

\* saveTransactions
saveTransactions(store) == [present |-> TRUE, text |-> Stringify(store, 0)]

\* Array.prototype.push
push_front(arr, x) == <<x>> \o arr

push(arr, x) == Append(arr, x)

\* the store after addTransaction
addTransaction(store, clock, clientId, type, value, date) ==
    push(store, [id |-> newId(clock), clienteId |-> clientId, tipo |-> type,
                 valor |-> parseFloat(value), data |-> date])

\* refreshAllData: the figures, then the cards
refreshAllData(clients, store, startDate, endDate, query, balanceFilter) ==
    LET r == refreshSearchResults(clients, store, query, balanceFilter)
    IN  [shown |-> [stats |-> updateDashboardUI(
                                calculateDashboardStats(clients, store, startDate, endDate)),
                    cards |-> r.cards],
         threw |-> r.threw]

showAlert(title) == [alert EXCEPT !.open = TRUE, !.title = title]

\* The three modals are overlays that cover the page, the alert above the
\* other two: a click reaches the topmost open one only.
PageFree == ~alert.open /\ ioModal = "hidden" /\ ~txModal.open

TxModalFree == ~alert.open /\ ioModal = "hidden" /\ txModal.open

IoModalFree == ~alert.open /\ ioModal # "hidden"

\* the state initializePage leaves for a roster and a storage content
Init ==
    /\ \E r \in 1..Len(Rosters) : allClients = Rosters[r]
    /\ \E k \in 1..Len(InitStorages) : storage = InitStorages[k]
    /\ allTransactions = loadTransactions(storage)
    /\ now = 1
    /\ dateStart = <<>> /\ dateEnd = <<>> /\ searchInput = <<>> /\ filterSaldo = "todos"
    /\ LET r == refreshAllData(allClients, allTransactions, <<>>, <<>>, <<>>, "todos")
       IN  shown = r.shown /\ ready = ~r.threw
    /\ txModal = TxHidden
    /\ ioModal = "hidden" /\ ioTextarea = NoText /\ exportSrc = <<>>
    /\ ioBtn = OrigBtn /\ offered = NoFile /\ reading = <<>>
    /\ alert = NoAlert
    /\ ret = NoRet

\* location.reload(), or the user reloading the page: initializePage again
Reload ==
    /\ allTransactions' = loadTransactions(storage)
    /\ dateStart' = <<>> /\ dateEnd' = <<>> /\ searchInput' = <<>> /\ filterSaldo' = "todos"
    /\ LET r == refreshAllData(allClients, allTransactions', <<>>, <<>>, <<>>, "todos")
       IN  shown' = r.shown /\ ready' = ~r.threw
    /\ txModal' = TxHidden
    /\ ioModal' = "hidden" /\ ioTextarea' = NoText /\ exportSrc' = <<>>
    /\ ioBtn' = OrigBtn /\ offered' = NoFile /\ reading' = <<>>
    /\ alert' = NoAlert
    /\ UNCHANGED <<allClients, storage, now, ret>>

\* time passes between two events
Tick ==
    /\ now < MaxClock
    /\ now' = now + 1
    /\ UNCHANGED <<dataVars, ready, inputs, shown, txModal, io, alert, ret>>

\* the user changes the date, search and balance inputs (no handler runs)
EditFilters(k) ==
    /\ PageFree
    /\ dateStart' = FilterSettings[k].dateStart
    /\ dateEnd' = FilterSettings[k].dateEnd
    /\ searchInput' = FilterSettings[k].searchInput
    /\ filterSaldo' = FilterSettings[k].filterSaldo
    /\ inputs' # inputs
    /\ UNCHANGED <<dataVars, now, ready, shown, txModal, io, alert, ret>>

\* click on btn-filter: refreshAllData
ClickFilter ==
    /\ ready /\ PageFree
    /\ shown' = refreshAllData(allClients, allTransactions, dateStart, dateEnd,
                               searchInput, filterSaldo).shown
    /\ UNCHANGED <<dataVars, now, ready, inputs, txModal, io, alert, ret>>

\* submit of the search form: refreshSearchResults only
handleSearchSubmit ==
    /\ ready /\ PageFree
    /\ shown' = [shown EXCEPT !.cards =
                    refreshSearchResults(allClients, allTransactions,
                                         searchInput, filterSaldo).cards]
    /\ UNCHANGED <<dataVars, now, ready, inputs, txModal, io, alert, ret>>

\* click on add-entry / add-exit of a displayed card
showTransactionModal(i, type) ==
    /\ PageFree
    /\ txModal' = [open |-> TRUE, type |-> type, clientId |-> shown.cards[i].id]
    /\ UNCHANGED <<dataVars, now, ready, inputs, shown, io, alert, ret>>

\* click on btn-modal-cancel
hideTransactionModal ==
    /\ ready /\ TxModalFree
    /\ txModal' = TxHidden
    /\ UNCHANGED <<dataVars, now, ready, inputs, shown, io, alert, ret>>

handleTransactionSubmit_noRefresh(value, date) ==
    /\ ready /\ TxModalFree
    /\ IF txModal.type = "" \/ txModal.clientId = "" \/ value = <<>> \/ date = <<>>
          THEN /\ alert' = showAlert("Campos Incompletos")
               /\ UNCHANGED <<dataVars, now, ready, inputs, shown, txModal, io, ret>>
          ELSE /\ Len(allTransactions) < MaxStore
               /\ allTransactions' = addTransaction(allTransactions, now, txModal.clientId,
                                                    txModal.type, value, date)
               /\ storage' = saveTransactions(allTransactions')
               /\ txModal' = TxHidden
               /\ UNCHANGED <<allClients, now, ready, inputs, shown, io, alert, ret>>

\* submit of the transaction form with the value and date typed
handleTransactionSubmit(value, date) ==
    /\ ready /\ TxModalFree
    /\ IF txModal.type = "" \/ txModal.clientId = "" \/ value = <<>> \/ date = <<>>
          THEN /\ alert' = showAlert("Campos Incompletos")
               /\ UNCHANGED <<dataVars, now, ready, inputs, shown, txModal, io, ret>>
          ELSE /\ Len(allTransactions) < MaxStore
               /\ allTransactions' = addTransaction(allTransactions, now, txModal.clientId,
                                                    txModal.type, value, date)
               /\ storage' = saveTransactions(allTransactions')
               /\ txModal' = TxHidden
               /\ shown' = refreshAllData(allClients, allTransactions', dateStart, dateEnd,
                                          searchInput, filterSaldo).shown
               /\ UNCHANGED <<allClients, now, ready, inputs, io, alert, ret>>

\* click on btn-export-transactions
handleExport ==
    /\ ready /\ PageFree
    /\ ioTextarea' = Stringify(allTransactions, 2)
    /\ exportSrc' = allTransactions
    /\ ioModal' = "export"
    /\ UNCHANGED <<dataVars, now, ready, inputs, shown, txModal, ioBtn, offered, reading,
                   alert, ret>>

\* change of the file input: handleImportFile with the file chosen.  The
\* original button is replaced by a clone whose onclick confirms this file;
\* once the original is out of the page its parentNode is null and the
\* handler throws before it arms anything.
handleImportFile(text) ==
    /\ ready /\ PageFree
    /\ ioModal' = "import"
    /\ offered' = File(text)
    /\ ioBtn' = IF ioBtn.inDom = "orig"
                   THEN [inDom |-> "clone", onclick |-> "confirm", file |-> text]
                   ELSE ioBtn
    /\ UNCHANGED <<dataVars, now, ready, inputs, shown, txModal, ioTextarea, exportSrc,
                   reading, alert, ret>>

\* click on the close button the modal shows
ClickIoButton ==
    /\ ready /\ IoModalFree
    /\ offered' = NoFile
    /\ IF ioBtn.onclick = "confirm"
          THEN /\ Len(reading) < MaxReads
               /\ reading' = Append(reading, ioBtn.file)
               /\ UNCHANGED ioModal
          ELSE /\ ioModal' = "hidden"
               /\ UNCHANGED reading
    /\ UNCHANGED <<dataVars, now, ready, inputs, shown, txModal, ioTextarea, exportSrc,
                   ioBtn, alert, ret>>

importFails_parseOnly(text) == text.kind = "bad"

\* JSON.parse throws, or the value is not an array
importFails(text) == text.kind # "arr"

importedStore_merged(store, importedData) == store \o importedData

\* allTransactions = importedData
importedStore(store, importedData) == importedData

\* reader.onload of the oldest load in flight
readerOnload ==
    /\ reading # <<>>
    /\ reading' = Tail(reading)
    /\ IF importFails(Head(reading))
          THEN /\ alert' = showAlert("Falha na Importacao")
               /\ ioBtn' = [ioBtn EXCEPT !.onclick = "hide"]
               /\ UNCHANGED <<allTransactions, storage, ioModal>>
          ELSE /\ allTransactions' = importedStore(allTransactions, ParseArray(Head(reading)))
               /\ storage' = saveTransactions(allTransactions')
               /\ ioModal' = "hidden"
               /\ alert' = [open |-> TRUE, title |-> "Importacao Concluida", reload |-> TRUE]
               /\ UNCHANGED ioBtn
    /\ UNCHANGED <<allClients, now, ready, inputs, shown, txModal, ioTextarea, exportSrc,
                   offered, ret>>

\* click on OK of the alert: hideAlertModal, and location.reload() once an
\* import has succeeded
ClickAlertOk ==
    /\ ready
    /\ alert.open
    /\ IF alert.reload
          THEN Reload
          ELSE /\ alert' = [alert EXCEPT !.open = FALSE]
               /\ UNCHANGED <<dataVars, now, ready, inputs, shown, txModal, io, ret>>

Next ==
    \/ Tick
    \/ Reload
    \/ \E k \in 1..Len(FilterSettings) : EditFilters(k)
    \/ ClickFilter
    \/ handleSearchSubmit
    \/ \E i \in 1..Len(shown.cards), type \in {"entrada", "saida"} : showTransactionModal(i, type)
    \/ hideTransactionModal
    \/ \E value \in FormValues, date \in FormDates : handleTransactionSubmit(value, date)
    \/ handleExport
    \/ \E f \in 1..Len(ImportFiles) : handleImportFile(ImportFiles[f])
    \/ ioTextarea.kind = "arr" /\ handleImportFile(ioTextarea)
    \/ ClickIoButton
    \/ readerOnload
    \/ ClickAlertOk

Spec == Init /\ [][Next]_vars

\* ------------------------------------------------------------------------
\* Claims about the calculation functions
\* ------------------------------------------------------------------------
RECURSIVE SumValor(_, _)
SumValor(store, S) ==
    IF S = {} THEN 0
    ELSE LET i == CHOOSE j \in S : TRUE IN store[i].valor + SumValor(store, S \ {i})

OfTipo(store, S, tipo) == {i \in S : store[i].tipo = tipo}

SignedSum(store, S) ==
    SumValor(store, OfTipo(store, S, "entrada")) - SumValor(store, OfTipo(store, S, "saida"))

OfClient(store, clientId) == {i \in 1..Len(store) : store[i].clienteId = clientId}

\* C1: calculateClientBalance(id) is the sum of valor over the records of
\* client id with tipo entrada minus the sum over its records with tipo
\* saida; other clients and other tipos contribute nothing, so it is 0 when
\* the store has no entrada/saida record of id (id in the roster or not).
C1_ClientBalance ==
    ret.fn = "balance" =>
        ret.balance = Num(SignedSum(allTransactions, OfClient(allTransactions, ret.clientId)))

C1_Witness ==
    /\ ret.fn = "balance" /\ ret.clientId = "c1" /\ ret.balance = Num(150)
    /\ Len(allTransactions) = 2
    /\ allTransactions[1].tipo = "saida" /\ allTransactions[2].tipo = "entrada"

\* calendar order of two date strings
DateLeq(a, b) ==
    \/ a[1] < b[1]
    \/ a[1] = b[1] /\ a[2] < b[2]
    \/ a[1] = b[1] /\ a[2] = b[2] /\ a[3] <= b[3]

InRangeIdx(store, startDate, endDate) ==
    {i \in 1..Len(store) :
        /\ startDate # <<>> => DateLeq(startDate, store[i].data)
        /\ endDate # <<>> => DateLeq(store[i].data, endDate)}

\* C9: saldoTotal is the signed sum over exactly the records whose data d
\* has startDate <= d when startDate is given and d <= endDate when endDate
\* is given, both bounds inclusive, an empty bound imposing nothing.
C9_SaldoTotal ==
    ret.fn = "stats" =>
        ret.stats.saldoTotal =
            Num(SignedSum(allTransactions, InRangeIdx(allTransactions, ret.startDate, ret.endDate)))

C9_Witness ==
    /\ ret.fn = "stats" /\ ret.startDate = Day2 /\ ret.endDate = Day2
    /\ Len(allTransactions) = 2
    /\ allTransactions[1].data = Day1 /\ allTransactions[2].data = Day2
    /\ allTransactions[2].tipo = "entrada"
    /\ ret.stats.saldoTotal = Num(allTransactions[2].valor)

RosterPct(clients, id) ==
    IF \E k \in 1..Len(clients) : clients[k].id = id /\ Has(clients[k], "comissaoPct")
       THEN (CHOOSE c \in {clients[k] : k \in 1..Len(clients)} :
                c.id = id /\ Has(c, "comissaoPct")).comissaoPct
       ELSE 0

RECURSIVE SumCommission(_, _, _)
SumCommission(clients, store, S) ==
    IF S = {} THEN 0
    ELSE LET i == CHOOSE j \in S : TRUE
         IN  store[i].valor * RosterPct(clients, store[i].clienteId)
                + SumCommission(clients, store, S \ {i})

\* C10: comissaoTotalValor is the sum over the in-range entrada records
\* whose clienteId matches a roster client having a comissaoPct of
\* valor * comissaoPct / 100 (here in hundredths); saida records, records
\* of no roster client and records of a client with an absent or zero
\* comissaoPct contribute 0.
C10_ComissaoTotal ==
    ret.fn = "stats" =>
        ret.stats.comissaoTotalValor =
            Num(SumCommission(allClients, allTransactions,
                    OfTipo(allTransactions,
                           InRangeIdx(allTransactions, ret.startDate, ret.endDate),
                           "entrada")))

C10_Witness ==
    /\ ret.fn = "stats" /\ ret.startDate = <<>> /\ ret.endDate = Day2
    /\ allClients = CalcRosters[1]
    /\ Len(allTransactions) = 2
    /\ allTransactions[1] = [id |-> "trans_1", clienteId |-> "c1", tipo |-> "entrada",
                             valor |-> 100, data |-> Day1]
    /\ allTransactions[2].clienteId = "c2" /\ allTransactions[2].tipo = "entrada"
    /\ allTransactions[2].data = Day2
    /\ ret.stats.comissaoTotalValor = Num(1000)

\* ------------------------------------------------------------------------
\* Claims about the store, its persisted snapshot and import/export
\* ------------------------------------------------------------------------
\* C2: the value in the persistent slot deserializes to exactly the
\* in-memory store (same records, same order) after every store operation,
\* so a reload restores the same store; an absent key is the empty store.
C2_SnapshotMirrorsStore == loadTransactions(storage) = allTransactions

C2_Witness ==
    /\ storage.present /\ Len(allTransactions) = 2
    /\ allTransactions[1] = OldTx /\ allTransactions[2].id = newId(2)
    /\ allTransactions[2].valor = 250

importStep == readerOnload

RequiredFields == {"id", "clienteId", "tipo", "valor", "data"}

importRejected ==
    /\ allTransactions' = allTransactions
    /\ storage' = storage
    /\ alert'.open /\ alert'.title = "Falha na Importacao"

\* C3: when the top-level JSON value of the imported file is not an array
\* the import is aborted: store and snapshot are what they were before it
\* and an error alert is shown.
C3_NonArrayRejected ==
    [][(importStep /\ Head(reading).kind = "obj") => importRejected]_vars

C3_Witness ==
    /\ alert.open /\ alert.title = "Falha na Importacao"
    /\ ioBtn.inDom = "clone" /\ ioBtn.file.kind = "obj" /\ ioBtn.onclick = "hide"
    /\ allTransactions = <<OldTx>> /\ storage = InitStorages[2]

lacksField(text) ==
    /\ text.kind = "arr"
    /\ \E i \in 1..Len(text.items) :
          \E k \in RequiredFields : \A j \in 1..Len(text.items[i]) : text.items[i][j].key # k

\* C4: importing an array in which some record lacks a required field (id,
\* clienteId, tipo, valor or data) is a validation failure: store and
\* snapshot keep their prior contents and the failure is reported.
C4_MissingFieldRejected ==
    [][(importStep /\ lacksField(Head(reading))) => importRejected]_vars

\* C5: after an import has failed, selecting a file again opens a new
\* import: the button of the dialog confirms the file just selected.
C5_RetryAfterFailure ==
    [][(/\ ioBtn.inDom = "clone" /\ ioBtn.onclick = "hide"
        /\ ~offered.set /\ offered'.set)
          => (ioBtn'.onclick = "confirm" /\ ioBtn'.file = offered'.text)]_vars

\* C6: importing the text export produced for a store S leaves the store
\* and the snapshot equal to S, same records in the same order, whatever
\* the store held at the time of the import (replace, never merge).
C6_ExportImportRoundTrip ==
    [][(importStep /\ ioTextarea.kind = "arr" /\ Head(reading) = ioTextarea)
          => (allTransactions' = exportSrc /\ loadTransactions(storage') = exportSrc)]_vars

C6_Witness ==
    /\ alert.open /\ alert.title = "Importacao Concluida"
    /\ ioTextarea.kind = "arr" /\ ioBtn.file = ioTextarea
    /\ allTransactions = exportSrc /\ Len(exportSrc) = 1
    /\ shown.stats.saldoTotal = 350

\* C7: no two records of the store have the same id, for any
\* non-decreasing sequence of clock readings.
C7_UniqueIds ==
    \A i, j \in 1..Len(allTransactions) :
        (i # j /\ Has(allTransactions[i], "id") /\ Has(allTransactions[j], "id"))
            => allTransactions[i].id # allTransactions[j].id

IsPrefix(s, t) == Len(s) <= Len(t) /\ SubSeq(t, 1, Len(s)) = s

\* C8: records are never updated, deleted or reordered: a step that is not
\* a successful import leaves the store unchanged, except addTransaction,
\* which extends it by exactly one record at the end.
C8_AppendOnly ==
    [][\/ (importStep /\ ~importFails(Head(reading)))
       \/ allTransactions' = allTransactions
       \/ /\ \E value \in FormValues, date \in FormDates : handleTransactionSubmit(value, date)
          /\ Len(allTransactions') = Len(allTransactions) + 1
          /\ IsPrefix(allTransactions, allTransactions')]_vars

C8_Witness ==
    /\ Len(allTransactions) = 2 /\ allTransactions[1] = OldTx
    /\ allTransactions[2].id = newId(1) /\ allTransactions[2].tipo = "saida"
    /\ Len(shown.cards) = 1 /\ Len(shown.cards[1].saidas) = 1

\* ------------------------------------------------------------------------
\* Claims about the roster figures, the search and the display
\* ------------------------------------------------------------------------
RECURSIVE SumRosterPct(_, _)
SumRosterPct(clients, S) ==
    IF S = {} THEN 0
    ELSE LET i == CHOOSE j \in S : TRUE
         IN  (IF Has(clients[i], "comissaoPct") THEN clients[i].comissaoPct ELSE 0)
                + SumRosterPct(clients, S \ {i})

\* C11: for a fixed roster totalClientes and comissaoMediaPct do not depend
\* on startDate, endDate or the store: totalClientes is the roster length,
\* comissaoMediaPct the mean of comissaoPct over all roster clients, an
\* absent comissaoPct counted as 0, and 0 for an empty roster.
C11_RosterFigures ==
    ret.fn = "stats" =>
        /\ ret.stats.totalClientes = Len(allClients)
        /\ ret.stats.comissaoMediaPct.den > 0
        /\ IF Len(allClients) = 0
              THEN ret.stats.comissaoMediaPct.num = 0
              ELSE ret.stats.comissaoMediaPct.num * Len(allClients)
                     = SumRosterPct(allClients, 1..Len(allClients))
                         * ret.stats.comissaoMediaPct.den

C11_Witness ==
    /\ ret.fn = "stats" /\ ret.startDate = Day2 /\ ret.endDate = <<>>
    /\ allClients = CalcRosters[1]
    /\ Len(allTransactions) = 2 /\ allTransactions[1].data = Day1
    /\ ret.stats.totalClientes = 2
    /\ ret.stats.comissaoMediaPct = [num |-> 10, den |-> 2]

\* str contains q, letter case ignored
ContainsCI(str, q) ==
    LET h == Chars(str)
    IN  \E off \in 0..(Len(h) - Len(q)) :
            \A j \in 1..Len(q) : LowerChar(h[off + j]) = LowerChar(q[j])

QueryOk(client, q) ==
    \/ Len(q) = 0
    \/ ContainsCI(client.nome, q) \/ ContainsCI(client.empresa, q) \/ ContainsCI(client.id, q)

\* the buckets as ranges of the balance b
BucketRange(balanceFilter, b) ==
    CASE balanceFilter = "todos" -> TRUE
      [] balanceFilter = "positivo" -> b > 0
      [] balanceFilter = "0-500" -> 0 < b /\ b <= 500
      [] balanceFilter = "501-1000" -> 501 <= b /\ b <= 1000
      [] balanceFilter = "1001+" -> b > 1000
      [] balanceFilter = "negativo" -> b < 0
      [] balanceFilter = "zero" -> b = 0

BalanceOf(store, id) == SignedSum(store, OfClient(store, id))

Selected(clients, store, q, balanceFilter) ==
    {i \in 1..Len(clients) :
        QueryOk(clients[i], q) /\ BucketRange(balanceFilter, BalanceOf(store, clients[i].id))}

\* the k-th smallest element of the set S of indices
Kth(S, k) == CHOOSE i \in S : Cardinality({j \in S : j < i}) = k - 1

\* C12: the list of refreshSearchResults is the subsequence of the roster,
\* in roster order, of exactly the clients that match the query (when not
\* empty) and whose balance is in the selected bucket (500 in 0-500 and not
\* in 501-1000, 501 in 501-1000), each annotated with its
\* calculateClientBalance value.
C12_SearchResults ==
    ret.fn = "search" =>
        LET S == Selected(allClients, allTransactions, ret.query, ret.balanceFilter)
        IN  /\ Len(ret.results) = Cardinality(S)
            /\ \A k \in 1..Len(ret.results) :
                  ret.results[k] =
                      allClients[Kth(S, k)] @@
                          [saldo |-> calculateClientBalance(allTransactions,
                                                            allClients[Kth(S, k)].id)]

C12_Witness ==
    /\ ret.fn = "search" /\ ret.balanceFilter = "0-500" /\ ret.query = <<>>
    /\ allClients = SearchRosters[2]
    /\ Len(ret.results) = 1 /\ ret.results[1].id = "c1" /\ ret.results[1].saldo = Num(500)
    /\ Len(allTransactions) = 2 /\ allTransactions[2].clienteId = "c2"
    /\ allTransactions[2].tipo = "entrada" /\ allTransactions[2].valor = 1000

\* the buckets other than 'todos'
SixBuckets == BalanceFilters \ {"todos"}

\* the ids listed by the search of the same store and query under a bucket
ListedUnder(balanceFilter) ==
    LET res == searchResults(allClients, allTransactions, ret.query, balanceFilter)
    IN  {res[k].id : k \in 1..Len(res)}

RetListed == {ret.results[k].id : k \in 1..Len(ret.results)}

\* C13 as stated: no client is listed under two different buckets among
\* positivo, 0-500, 501-1000, 1001+, negativo and zero for the same store.
C13_SixBucketsExclusive ==
    (ret.fn = "search" /\ ret.balanceFilter \in SixBuckets) =>
        \A other \in SixBuckets \ {ret.balanceFilter} :
            RetListed \cap ListedUnder(other) = {}

\* the ranges that lie inside 'positivo'
PositiveRanges == {"0-500", "501-1000", "1001+"}

\* C13, amended: two different buckets other than 'todos' list a common
\* client only when one of them is positivo and the other is 0-500, 501-1000
\* or 1001+; so 0-500, 501-1000, 1001+, negativo and zero are mutually
\* exclusive, positivo excludes negativo and zero, and every client listed
\* under 0-500, 501-1000 or 1001+ is also listed under positivo.
C13_RangeBucketsExclusive ==
    (ret.fn = "search" /\ ret.balanceFilter \in SixBuckets) =>
        /\ \A other \in SixBuckets \ {ret.balanceFilter} :
              RetListed \cap ListedUnder(other) # {} =>
                  \/ ret.balanceFilter = "positivo" /\ other \in PositiveRanges
                  \/ other = "positivo" /\ ret.balanceFilter \in PositiveRanges
        /\ ret.balanceFilter \in PositiveRanges => RetListed \subseteq ListedUnder("positivo")

C13_Witness ==
    /\ ret.fn = "search" /\ ret.balanceFilter = "zero" /\ ret.query = <<>>
    /\ Len(allTransactions) = 2
    /\ allTransactions[1] = [id |-> "trans_1", clienteId |-> "c1", tipo |-> "entrada",
                              valor |-> 500, data |-> Day1]
    /\ allTransactions[2] = [id |-> "trans_1", clienteId |-> "c1", tipo |-> "saida",
                              valor |-> 500, data |-> Day1]
    /\ RetListed = {"c1", "c2"}
    /\ ListedUnder("negativo") = {} /\ ListedUnder("positivo") = {}

\* ------------------------------------------------------------------------
\* Claim about the display after a change of the store
\* ------------------------------------------------------------------------
\* the page shows the figures and cards of the store and inputs of this state
DisplayCurrent ==
    shown = refreshAllData(allClients, allTransactions, dateStart, dateEnd,
                           searchInput, filterSaldo).shown

\* the same of the state a step leads to
DisplayCurrentNext ==
    shown' = refreshAllData(allClients', allTransactions', dateStart', dateEnd',
                            searchInput', filterSaldo').shown

\* a submit of the form that added a record
addStep ==
    /\ \E value \in FormValues, date \in FormDates : handleTransactionSubmit(value, date)
    /\ allTransactions' # allTransactions

\* a reader.onload that replaced the store
importSuccessStep ==
    /\ reading # <<>> /\ ~importFails(Head(reading))
    /\ readerOnload

\* OK of the alert of a successful import
reloadStep == alert.open /\ alert.reload /\ ClickAlertOk

\* C14 as stated: when the handler of a submitted transaction or of a
\* successful import has finished, the figures and the client list shown are
\* those of the current store under the current inputs.
C14_DisplayFollowsMutation ==
    [][(addStep \/ importSuccessStep) => DisplayCurrentNext]_vars

\* C14, amended: a submitted transaction leaves the display recomputed from
\* the new store under the current inputs; a successful import leaves the
\* display as it was, under an open alert whose OK reloads the page, and
\* that reload shows the imported store under the inputs reset to empty
\* dates, empty query and 'todos'.
C14_DisplayAfterAddOrReload ==
    [][/\ addStep => DisplayCurrentNext
       /\ importSuccessStep => (shown' = shown /\ alert'.open /\ alert'.reload)
       /\ reloadStep => /\ DisplayCurrentNext /\ ~alert'.open
                        /\ allTransactions' = allTransactions
                        /\ dateStart' = <<>> /\ dateEnd' = <<>>
                        /\ searchInput' = <<>> /\ filterSaldo' = "todos"]_vars

\* the success alert is open over figures of the store before the import
C14_Witness ==
    /\ alert.open /\ alert.reload
    /\ allTransactions = ParseArray(ImportFiles[3])
    /\ ~DisplayCurrent
    /\ shown.stats.saldoTotal = 0
    /\ updateDashboardUI(calculateDashboardStats(allClients, allTransactions,
                                                 dateStart, dateEnd)).saldoTotal # 0

====
